---- MODULE Spec2Model ----
(***************************************************************************)
(* Model of the Streamlit clinical dashboard, src/dashboard6.py (the       *)
(* regex-based variant).  src/dashboard5.py has the same dates, ages,      *)
(* bands, filter and aggregations; its step 1 replaces only the exact      *)
(* text ".NÃO DEFINIDO." and strips afterwards.                            *)
(*                                                                         *)
(* One session is modelled: the first script run loads and cleans the CSV  *)
(* (carregar_dados, cached), every later widget event re-runs the whole    *)
(* script against the cached DataFrame and recomputes the filtered view    *)
(* and every aggregation.                                                  *)
(*                                                                         *)
(* Text is a sequence of one-character strings.  A missing value (NaN) is  *)
(* the sequence NaN, whose single element is no character.  A timestamp    *)
(* is a record [y, m, d, h]; NaT is the timestamp of an unparseable date.  *)
(***************************************************************************)
EXTENDS Integers, Sequences, FiniteSets

VARIABLES
    pc,               \* "inicio" | "pronto" | "parado" | "falhou"
    arquivo,          \* saude_processada.csv: Ausente or a sequence of raw rows
    cache,            \* st.cache_data entry of carregar_dados: [cheio, df]
    cidades,          \* value of the city multiselect
    periodo,          \* value returned by st.sidebar.date_input (a tuple)
    termo_busca,      \* value of the complaint text_input
    diag_selecionado, \* value of the diagnosis selectbox
    erro,             \* st.error shown
    aviso,            \* st.sidebar.warning shown in the last run
    data_inicio,      \* start of the date range used by the last run
    data_fim,         \* end of the date range used by the last run
    df_filtered,      \* filtered view of the last run
    kpis,             \* [total, unicos, top_diag] of the last run
    vendas_tempo,     \* monthly series of the last run
    busca,            \* [feita, df_queixa]: complaint search of the last run
    casos_diag,       \* len(df_diag) of the last run
    top_diagnosticos  \* top-10 ranking of the last run

vars == <<pc, arquivo, cache, cidades, periodo, termo_busca, diag_selecionado,
          erro, aviso, data_inicio, data_fim, df_filtered, kpis, vendas_tempo,
          busca, casos_diag, top_diagnosticos>>

----------------------------------------------------------------------------
(* Text *)

\* np.nan in an object column
NaN == <<"NaN">>

\* The characters of the model, in code-point order
Alfabeto == <<"\t", " ", ".", "0", "1", "2", "3", "4", "5", "6", "7", "8", "9",
              "A", "D", "E", "F", "I", "J", "N", "O", "P", "R", "S",
              "a", "b", "d", "e", "f", "i", "l", "n", "o", "r", "s", "t", "u",
              "Ã", "ã">>

Ord(c) == CHOOSE i \in 1..Len(Alfabeto) : Alfabeto[i] = c

\* Characters matched by \s and removed by str.strip()
Espacos == {"\t", " "}

\* Case folding of one character (re.IGNORECASE / str.lower)
lower(c) ==
    CASE c = "A" -> "a" [] c = "D" -> "d" [] c = "E" -> "e" [] c = "F" -> "f"
      [] c = "I" -> "i" [] c = "N" -> "n" [] c = "O" -> "o" [] c = "P" -> "p"
      [] c = "R" -> "r" [] c = "S" -> "s" [] c = "J" -> "j" [] c = "Ã" -> "ã"
      [] OTHER -> c

\* Series.astype(str): a missing value becomes the text "nan"
astype_str(v) == IF v = NaN THEN <<"n", "a", "n">> ELSE v

RECURSIVE lstrip(_)
lstrip(s) == IF s # <<>> /\ Head(s) \in Espacos THEN lstrip(Tail(s)) ELSE s

RECURSIVE rstrip(_)
rstrip(s) ==
    IF s # <<>> /\ s[Len(s)] \in Espacos THEN rstrip(SubSeq(s, 1, Len(s) - 1)) ELSE s

\* str.strip()
strip(s) == rstrip(lstrip(s))

\* Lexicographic order of two texts by code point (np.sort of the options)
RECURSIVE texto_menor(_, _)
texto_menor(a, b) ==
    IF a = <<>> THEN b # <<>>
    ELSE IF b = <<>> THEN FALSE
    ELSE IF Head(a) = Head(b) THEN texto_menor(Tail(a), Tail(b))
    ELSE Ord(Head(a)) < Ord(Head(b))

DEFINIDO == <<"D", "E", "F", "I", "N", "I", "D", "O">>

\* Number of consecutive whitespace characters of s from position i on
RECURSIVE brancos_desde(_, _)
brancos_desde(s, i) ==
    IF i <= Len(s) /\ s[i] \in Espacos THEN 1 + brancos_desde(s, i + 1) ELSE 0

\* Variant of casa_nao_definido: the leading period is required
casa_com_ponto_inicial(s) ==
    LET k == brancos_desde(s, 5)
        j == 5 + k
        resto == Len(s) - (j + 7)
    IN  /\ Len(s) >= 4
        /\ s[1] = "."
        /\ s[2] = "N"
        /\ s[3] \in {"Ã", "A"}
        /\ s[4] = "O"
        /\ k >= 1
        /\ Len(s) >= j + 7
        /\ SubSeq(s, j, j + 7) = DEFINIDO
        /\ \/ resto = 0
           \/ resto = 1 /\ s[Len(s)] = "."

\* re.search(r'^\.?N[ÃA]O\s+DEFINIDO\.?$', s): case-sensitive, anchored
casa_nao_definido(s) ==
    LET i == IF s # <<>> /\ s[1] = "." THEN 2 ELSE 1
        k == brancos_desde(s, i + 3)
        j == i + 3 + k
        resto == Len(s) - (j + 7)
    IN  /\ Len(s) >= i + 2
        /\ s[i] = "N"
        /\ s[i + 1] \in {"Ã", "A"}
        /\ s[i + 2] = "O"
        /\ k >= 1
        /\ Len(s) >= j + 7
        /\ SubSeq(s, j, j + 7) = DEFINIDO
        /\ \/ resto = 0
           \/ resto = 1 /\ s[Len(s)] = "."

\* Step 1 of carregar_dados: the cleaned diagnosis of one raw value
normalizar_diagnostico(v) ==
    LET texto == strip(astype_str(v))
        sem_sentinela == IF casa_nao_definido(texto) THEN NaN ELSE texto
    IN  IF sem_sentinela = <<"n", "a", "n">> THEN NaN ELSE sem_sentinela

----------------------------------------------------------------------------
(* Dates *)

HorasPorDia == 24

\* datetime.date / Timestamp fields of an unparseable or missing date
NaT == [y |-> 0, m |-> 0, d |-> 0, h |-> 0]

bissexto(y) == (y % 4 = 0 /\ y % 100 # 0) \/ y % 400 = 0

dias_no_mes(y, m) ==
    IF m = 2 THEN (IF bissexto(y) THEN 29 ELSE 28)
    ELSE IF m \in {4, 6, 9, 11} THEN 30 ELSE 31

\* Days from 1970-01-01 to the civil date y-m-d (proleptic Gregorian)
dias_desde_epoca(y, m, d) ==
    LET yy  == IF m <= 2 THEN y - 1 ELSE y
        era == yy \div 400
        yoe == yy - era * 400
        mp  == IF m > 2 THEN m - 3 ELSE m + 9
        doy == (153 * mp + 2) \div 5 + d - 1
        doe == yoe * 365 + yoe \div 4 - yoe \div 100 + doy
    IN  era * 146097 + doe - 719468

\* pd.to_datetime(texto, errors='coerce') of one raw date field
to_datetime(t) ==
    IF /\ t.y \in 1678..2261
       /\ t.m \in 1..12
       /\ t.d \in 1..dias_no_mes(t.y, t.m)
       /\ t.h \in 0..(HorasPorDia - 1)
    THEN t ELSE NaT

\* Timestamp as hours since the epoch
horas(ts) == dias_desde_epoca(ts.y, ts.m, ts.d) * HorasPorDia + ts.h

\* Series.dt.date: the day, time of day discarded
dt_date(ts) == [y |-> ts.y, m |-> ts.m, d |-> ts.d]

ordinal(dia) == dias_desde_epoca(dia.y, dia.m, dia.d)

\* date <= date
data_le(a, b) == ordinal(a) <= ordinal(b)

----------------------------------------------------------------------------
(* carregar_dados *)

DiasPorAno == 365
IdadeMaxima == 120

\* Step 3: (dataEntrada - dataNascimento).dt.days // 365; NaN when a date is NaT
idade_no_atendimento(nasc, entrada) ==
    IF nasc = NaT \/ entrada = NaT
    THEN [nulo |-> TRUE, anos |-> 0]
    ELSE [nulo |-> FALSE,
          anos |-> ((horas(entrada) - horas(nasc)) \div HorasPorDia) \div DiasPorAno]

\* Variant of idade_aceita: the upper end is included
idade_aceita_ate_120(i) == ~i.nulo /\ i.anos >= 0 /\ i.anos <= 120

\* (idade >= 0) & (idade < 120); a comparison with NaN is False
idade_aceita(i) == ~i.nulo /\ i.anos >= 0 /\ i.anos < IdadeMaxima

bins == <<0, 2, 12, 19, 59, 120>>
labels == <<"Bebê (0-2)", "Criança (3-12)", "Adolescente (13-19)",
            "Adulto (20-59)", "Idoso (60+)">>

\* The missing category of pd.cut
SemFaixa == "NaN"

\* Variant of cut: right=True, intervals open on the left and closed on the right
cut_direita_fechada(x) ==
    IF \E i \in 1..5 : <<0, 2, 12, 19, 59, 120>>[i] < x /\ x <= <<0, 2, 12, 19, 59, 120>>[i + 1]
    THEN <<"Bebê (0-2)", "Criança (3-12)", "Adolescente (13-19)", "Adulto (20-59)",
           "Idoso (60+)">>[CHOOSE i \in 1..5 :
                              <<0, 2, 12, 19, 59, 120>>[i] < x /\ x <= <<0, 2, 12, 19, 59, 120>>[i + 1]]
    ELSE "NaN"

\* pd.cut(x, bins=bins, labels=labels, right=False) of one value
cut(x) ==
    IF \E i \in 1..Len(labels) : bins[i] <= x /\ x < bins[i + 1]
    THEN labels[CHOOSE i \in 1..Len(labels) : bins[i] <= x /\ x < bins[i + 1]]
    ELSE SemFaixa

\* Steps 1 to 3 on one raw row: diagnosis cleaned, dates parsed, age derived
tratar_linha(r) ==
    LET nasc == to_datetime(r.dataNascimento)
        entrada == to_datetime(r.dataEntrada)
    IN  [id |-> r.id, cidade |-> r.cidade, queixa |-> r.queixa,
         diagnostico |-> normalizar_diagnostico(r.diagnostico),
         dataNascimento |-> nasc, dataEntrada |-> entrada,
         idade |-> idade_no_atendimento(nasc, entrada)]

\* Step 4 on one surviving row: the age band is appended
com_faixa(t) ==
    [id |-> t.id, cidade |-> t.cidade, queixa |-> t.queixa,
     diagnostico |-> t.diagnostico,
     dataNascimento |-> t.dataNascimento, dataEntrada |-> t.dataEntrada,
     idade_no_atendimento |-> t.idade.anos,
     faixa_etaria |-> cut(t.idade.anos)]

\* carregar_dados() on the rows read from the CSV
carregar_dados(linhas) ==
    LET tratadas == [i \in 1..Len(linhas) |-> tratar_linha(linhas[i])]
        aceitas == SelectSeq(tratadas, LAMBDA t : idade_aceita(t.idade))
    IN  [i \in 1..Len(aceitas) |-> com_faixa(aceitas[i])]

----------------------------------------------------------------------------
(* The script body: widgets, filter, aggregations *)

\* df['cidade'].unique(): options and default of the multiselect
cidades_unicas(df) == {df[i].cidade : i \in 1..Len(df)}

dias_do(df) == {dt_date(df[i].dataEntrada) : i \in 1..Len(df)}

\* df['dataEntrada'].min().date(); NaT for an empty frame
min_date(df) ==
    IF df = <<>> THEN dt_date(NaT)
    ELSE CHOOSE a \in dias_do(df) : \A b \in dias_do(df) : data_le(a, b)

\* df['dataEntrada'].max().date(); NaT for an empty frame
max_date(df) ==
    IF df = <<>> THEN dt_date(NaT)
    ELSE CHOOSE a \in dias_do(df) : \A b \in dias_do(df) : data_le(b, a)

\* Variant of desempacotar: a lone start date is used as a one-day range
desempacotar_parcial(per, df) ==
    IF Len(per) = 2 THEN [aviso |-> FALSE, inicio |-> per[1], fim |-> per[2]]
    ELSE IF Len(per) = 1 THEN [aviso |-> TRUE, inicio |-> per[1], fim |-> per[1]]
    ELSE [aviso |-> TRUE, inicio |-> min_date(df), fim |-> max_date(df)]

\* data_inicio, data_fim = date_input(...): unpacking anything but a pair
\* raises ValueError, which the script answers with a warning and the full span
periodo_valido(per) == Len(per) = 2

desempacotar(per, df) ==
    IF periodo_valido(per)
    THEN [aviso |-> FALSE, inicio |-> per[1], fim |-> per[2]]
    ELSE [aviso |-> TRUE, inicio |-> min_date(df), fim |-> max_date(df)]

\* Variant of no_filtro: the timestamp, not its day, is compared with the bounds
no_filtro_com_hora(r, cids, inicio, fim) ==
    /\ r.cidade \in cids
    /\ ordinal(inicio) * HorasPorDia <= horas(r.dataEntrada)
    /\ horas(r.dataEntrada) <= ordinal(fim) * HorasPorDia

\* One row's test in the boolean mask of df_filtered
no_filtro(r, cids, inicio, fim) ==
    /\ r.cidade \in cids
    /\ data_le(inicio, dt_date(r.dataEntrada))
    /\ data_le(dt_date(r.dataEntrada), fim)

\* df_filtered
filtrar(df, cids, inicio, fim) ==
    SelectSeq(df, LAMBDA r : no_filtro(r, cids, inicio, fim))

\* df_filtered['_id'].nunique()
nunique_id(v) == Cardinality({v[i].id : i \in 1..Len(v)})

\* The non-null diagnoses of a view, in row order (dropna)
diagnosticos_definidos(v) ==
    LET com == SelectSeq(v, LAMBDA r : r.diagnostico # NaN)
    IN  [i \in 1..Len(com) |-> com[i].diagnostico]

\* Series.unique(): the distinct values in order of first occurrence
RECURSIVE unique(_)
unique(s) ==
    IF s = <<>> THEN <<>>
    ELSE LET ini == unique(SubSeq(s, 1, Len(s) - 1))
             x == s[Len(s)]
         IN  IF \E i \in 1..Len(ini) : ini[i] = x THEN ini ELSE Append(ini, x)

contar(s, x) == Cardinality({i \in 1..Len(s) : s[i] = x})

\* Stable sort of [valor, contagem] records by descending count
RECURSIVE ordenar_desc(_)
ordenar_desc(t) ==
    IF t = <<>> THEN <<>>
    ELSE LET i == CHOOSE a \in 1..Len(t) :
                     /\ \A b \in 1..Len(t) : t[b].contagem <= t[a].contagem
                     /\ \A b \in 1..(a - 1) : t[b].contagem < t[a].contagem
         IN  <<t[i]>> \o ordenar_desc(SubSeq(t, 1, i - 1) \o SubSeq(t, i + 1, Len(t)))

\* Series.value_counts() of a series without nulls
value_counts(s) ==
    LET u == unique(s)
    IN  ordenar_desc([i \in 1..Len(u) |-> [valor |-> u[i], contagem |-> contar(s, u[i])]])

\* Variant of head: one row too many
head_mais_um(t, n) == SubSeq(t, 1, IF Len(t) < n + 1 THEN Len(t) ELSE n + 1)

\* Series.head(n)
head(t, n) == SubSeq(t, 1, IF Len(t) < n THEN Len(t) ELSE n)

TopN == 10

NA == <<"N", "/", "A">>

\* Variant of top_diag: no except branch, an empty count yields a missing value
top_diag_sem_except(v) ==
    IF \A i \in 1..Len(v) : v[i].diagnostico = NaN THEN NaN
    ELSE value_counts(diagnosticos_definidos(v))[1].valor

\* try: value_counts().idxmax()  except: "N/A"
top_diag(v) ==
    LET vc == value_counts(diagnosticos_definidos(v))
    IN  IF vc = <<>> THEN NA ELSE vc[1].valor

\* top_diagnosticos: dropna, value_counts, head(10)
ranking(v) == head(value_counts(diagnosticos_definidos(v)), TopN)

mes_indice(ts) == ts.y * 12 + ts.m - 1

\* Label of a monthly bin: the last day of the month
fim_do_mes(k) ==
    [y |-> k \div 12, m |-> (k % 12) + 1, d |-> dias_no_mes(k \div 12, (k % 12) + 1)]

\* Variant of resample_mensal: groupby of the month, only months with visits
agrupar_por_mes(v) ==
    LET ks == {mes_indice(v[i].dataEntrada) : i \in 1..Len(v)}
        ordenar[S \in SUBSET ks] ==
            IF S = {} THEN <<>>
            ELSE LET lo == CHOOSE a \in S : \A b \in S : a <= b
                 IN  <<lo>> \o ordenar[S \ {lo}]
    IN  [n \in 1..Cardinality(ks) |->
            [dataEntrada |-> fim_do_mes(ordenar[ks][n]),
             Atendimentos |->
                Cardinality({i \in 1..Len(v) : mes_indice(v[i].dataEntrada) = ordenar[ks][n]})]]

\* set_index('dataEntrada').resample('M').size().reset_index(name='Atendimentos')
resample_mensal(v) ==
    IF v = <<>> THEN <<>>
    ELSE LET ks == {mes_indice(v[i].dataEntrada) : i \in 1..Len(v)}
             lo == CHOOSE a \in ks : \A b \in ks : a <= b
             hi == CHOOSE a \in ks : \A b \in ks : b <= a
         IN  [n \in 1..(hi - lo + 1) |->
                [dataEntrada |-> fim_do_mes(lo + n - 1),
                 Atendimentos |->
                    Cardinality({i \in 1..Len(v) :
                                    mes_indice(v[i].dataEntrada) = lo + n - 1})]]

\* np.sort(lista_diagnosticos): ascending by code point
RECURSIVE np_sort(_)
np_sort(s) ==
    IF s = <<>> THEN <<>>
    ELSE LET i == CHOOSE a \in 1..Len(s) :
                     \A b \in 1..Len(s) : b = a \/ texto_menor(s[a], s[b])
         IN  <<s[i]>> \o np_sort(SubSeq(s, 1, i - 1) \o SubSeq(s, i + 1, Len(s)))

\* Options of the diagnosis selectbox
opcoes_diagnostico(v) == np_sort(unique(diagnosticos_definidos(v)))

\* The selectbox keeps its value while its options are the same, and is a new
\* widget showing its first option when they change; it is not drawn without options
selectbox(opcoes, anteriores, valor) ==
    IF opcoes = <<>> THEN NaN
    ELSE IF opcoes = anteriores /\ valor # NaN THEN valor
    ELSE opcoes[1]

\* len(df_diag) for a truthy selection
contar_casos(v, diag) ==
    IF diag = NaN \/ diag = <<>> THEN 0
    ELSE Cardinality({i \in 1..Len(v) : v[i].diagnostico = diag})

\* One pattern character against one text character under re.IGNORECASE
casa_caractere(p, c) == p = "." \/ lower(p) = lower(c)

\* str.contains(termo, case=False): the term is searched as a regular expression
contains(texto, termo) ==
    \E off \in 0..(Len(texto) - Len(termo)) :
        \A i \in 1..Len(termo) : casa_caractere(termo[i], texto[off + i])

\* df_filtered[df_filtered['queixa'].astype(str).str.contains(termo, case=False, na=False)]
buscar_queixa(v, termo) ==
    SelectSeq(v, LAMBDA r : contains(astype_str(r.queixa), termo))

\* if termo_busca: df_queixa = ...
busca_por(v, termo) ==
    IF termo = <<>> THEN [feita |-> FALSE, df_queixa |-> <<>>]
    ELSE [feita |-> TRUE, df_queixa |-> buscar_queixa(v, termo)]

----------------------------------------------------------------------------
(* Source files of the sessions checked *)

TamanhoTabela == 7
TamanhoRanking == 14
MaxAnos == 121
MaxMargem == 1
MaxEspacos == 2

Digitos == <<"0", "1", "2", "3", "4", "5", "6", "7", "8", "9">>

\* A diagnosis code as it is written in the file
codigo(n) == <<"J", Digitos[(n \div 10) + 1], Digitos[(n % 10) + 1]>>

SentinelaPadrao == <<".", "N", "Ã", "O", " ", "D", "E", "F", "I", "N", "I", "D", "O", ".">>

FebreAlta == <<"F", "e", "b", "r", "e", " ", "a", "l", "t", "a">>
FebreETosse == <<"f", "e", "b", "r", "e", " ", "e", " ", "t", "o", "s", "s", "e">>
Dor == <<"d", "o", "r">>

Nasc1990 == [y |-> 1990, m |-> 1, d |-> 1, h |-> 0]
Nov30 == [y |-> 2023, m |-> 11, d |-> 30, h |-> 10]
Dez01 == [y |-> 2023, m |-> 12, d |-> 1, h |-> 0]
Fev29 == [y |-> 2024, m |-> 2, d |-> 29, h |-> 12]
Mar01 == [y |-> 2024, m |-> 3, d |-> 1, h |-> 0]

linha(id, cidade, nasc, entrada, queixa, diag) ==
    [id |-> id, cidade |-> cidade, dataNascimento |-> nasc, dataEntrada |-> entrada,
     queixa |-> queixa, diagnostico |-> diag]

\* The table the session files are cut from.  Row 3 is of a patient born in
\* 1890 and row 5 has an impossible birth date; row 2 carries the sentinel
\* diagnosis and row 7 an empty one; row 1 has no complaint text.  No visit
\* falls in January 2024.
TabelaSessao ==
    <<linha(1, "SP", Nasc1990, Nov30, NaN, codigo(1)),
      linha(2, "RJ", Nasc1990, Fev29, FebreETosse, SentinelaPadrao),
      linha(1, "SP", [y |-> 1890, m |-> 1, d |-> 1, h |-> 0], Dez01, Dor, codigo(2)),
      linha(3, "SP", Nasc1990, Mar01, FebreAlta, codigo(2)),
      linha(2, "RJ", [y |-> 1990, m |-> 2, d |-> 30, h |-> 0], Nov30, Dor, codigo(1)),
      linha(4, "RJ", Nasc1990, Dez01, Dor, codigo(2)),
      linha(5, "SP", Nasc1990, Fev29, FebreAlta, NaN)>>

ciclo(t, i) == t[((i - 1) % Len(t)) + 1]

\* The files of the session specification: the first n rows of the table
ArquivosSessao ==
    {[existe |-> TRUE, linhas |-> [i \in 1..n |-> ciclo(TabelaSessao, i)]] :
        n \in 0..TamanhoTabela}

\* Row i of the table the ranking files are cut from: twelve diagnosis codes
\* in turn, every seventh row without a diagnosis
linha_ranking(i) ==
    linha(i, IF i % 3 = 0 THEN "RJ" ELSE "SP", Nasc1990,
          IF i % 2 = 0 THEN Dez01 ELSE Nov30, Dor,
          IF i % 7 = 0 THEN NaN ELSE codigo(((i * 5) % 12) + 1))

\* The files of the ranking specification: the first n rows of that table
ArquivosRanking ==
    {[existe |-> TRUE, linhas |-> [i \in 1..n |-> linha_ranking(i)]] :
        n \in 0..TamanhoRanking}

Ausente == [existe |-> FALSE, linhas |-> <<>>]

VisitaPadrao == [y |-> 2020, m |-> 3, d |-> 1, h |-> 0]
NascimentoPadrao == [y |-> 1990, m |-> 3, d |-> 1, h |-> 0]

\* Visit date fields: two valid ones, a month 13, a 29 February of a common
\* year, an empty cell
EntradasAmplas ==
    {VisitaPadrao,
     [y |-> 2020, m |-> 2, d |-> 29, h |-> 12],
     [y |-> 2020, m |-> 13, d |-> 1, h |-> 0],
     [y |-> 2019, m |-> 2, d |-> 29, h |-> 0],
     NaT}

\* Birth date fields: every whole number of years before (or one after) the
\* default visit at noon, an impossible date, an empty cell
NascimentosAmplos ==
    {[y |-> 2020 - k, m |-> 3, d |-> 1, h |-> 12] : k \in (-1)..MaxAnos}
    \cup {[y |-> 2001, m |-> 2, d |-> 30, h |-> 0], NaT}

\* Birth date fields around the ends of the accepted ages, at midnight
NascimentosBorda ==
    {[y |-> 2020 - k, m |-> 3, d |-> 1, h |-> 0] : k \in {0, 2, 19, 120}} \cup {NaT}

repetir(c, n) == [i \in 1..n |-> c]

upper_ou_lower(s, minusculas) ==
    IF minusculas THEN [i \in 1..Len(s) |-> lower(s[i])] ELSE s

\* Writings of the "not defined" sentinel: with and without each period, with
\* and without the tilde, in upper and lower case, with 0..MaxEspacos blanks
\* between the words and 0..MaxMargem blanks around
VariantesSentinela ==
    {repetir(" ", e) \o (IF p1 THEN <<".">> ELSE <<>>)
        \o upper_ou_lower(<<"N", a, "O">>, mi) \o repetir(b, k)
        \o upper_ou_lower(DEFINIDO, mi) \o (IF p2 THEN <<".">> ELSE <<>>)
        \o repetir(" ", d) :
        e \in 0..MaxMargem, d \in 0..MaxMargem, p1 \in BOOLEAN, p2 \in BOOLEAN,
        a \in {"Ã", "A"}, mi \in BOOLEAN, b \in {" "}, k \in 0..MaxEspacos}

DiagnosticosAmplos ==
    VariantesSentinela
    \cup {NaN, <<"n", "a", "n">>, <<" ", "n", "a", "n">>, codigo(11), <<" ", "J", "1", "1", " ">>,
          SentinelaPadrao \o <<"S">>, <<"N", "A", "O", "\t", " ">> \o DEFINIDO,
          <<"N", "ã", "o", " ", "D", "e", "f", "i", "n", "i", "d", "o">>}

linha_ampla(nasc, entrada, diag) == linha(7, "SP", nasc, entrada, Dor, diag)

LinhasAmplas ==
    {linha_ampla(n, VisitaPadrao, codigo(11)) : n \in NascimentosAmplos}
    \cup {linha_ampla(n, e, codigo(11)) : n \in NascimentosBorda, e \in EntradasAmplas}
    \cup {linha_ampla(NascimentoPadrao, VisitaPadrao, dg) : dg \in DiagnosticosAmplos}

\* A well-formed row of the same city and day as the wide rows
LinhaBoa == linha(8, "SP", NascimentoPadrao, VisitaPadrao, FebreAlta, codigo(12))

\* The files of the loader specification: one wide row followed by the
\* well-formed row, or alone when it is a boundary row
ArquivosCarga ==
    {[existe |-> TRUE, linhas |-> <<w, LinhaBoa>>] : w \in LinhasAmplas}
    \cup {[existe |-> TRUE, linhas |-> <<linha_ampla(n, e, SentinelaPadrao)>>] :
            n \in NascimentosBorda, e \in EntradasAmplas}

\* Days the date picker is set to: the visit days of the frame and the days
\* of DiasExtras that lie within [min_date, max_date]
DiasExtras == {[y |-> 2024, m |-> 1, d |-> 15]}

dias_escolha(df) ==
    dias_do(df) \cup {x \in DiasExtras : df # <<>> /\ data_le(min_date(df), x) /\ data_le(x, max_date(df))}

\* Search terms typed into the text input
Termos == {<<>>, <<"f", "e", "b", "r", "e">>, <<"D", "O", "R">>, <<"n", "a">>, <<"o", ".">>}

----------------------------------------------------------------------------
(* The session *)

NaoCalculado == [total |-> 0, unicos |-> 0, top_diag |-> NaN]

InitComum ==
    /\ pc = "inicio"
    /\ cache = [cheio |-> FALSE, df |-> <<>>]
    /\ cidades = {}
    /\ periodo = <<>>
    /\ termo_busca = <<>>
    /\ diag_selecionado = NaN
    /\ erro = FALSE
    /\ aviso = FALSE
    /\ data_inicio = dt_date(NaT)
    /\ data_fim = dt_date(NaT)
    /\ df_filtered = <<>>
    /\ kpis = NaoCalculado
    /\ vendas_tempo = <<>>
    /\ busca = [feita |-> FALSE, df_queixa |-> <<>>]
    /\ casos_diag = 0
    /\ top_diagnosticos = <<>>

Init == arquivo \in ArquivosSessao \cup {Ausente} /\ InitComum

InitRanking == arquivo \in ArquivosRanking /\ InitComum

InitCarga == arquivo \in ArquivosCarga \cup {Ausente} /\ InitComum

\* The script from the sidebar filters to the ranking (lines 60 to 203), run
\* against frame df with the widgets holding cids, per, termo and a diagnosis
\* selectbox left at diag.  With an empty frame min_date is NaT and what
\* date_input does with it is not fixed by the script: the run either dies of
\* an uncaught exception or goes on, with or without the ValueError warning.
Corpo(df, cids, per, termo, diag) ==
    LET range == desempacotar(per, df)
        v == filtrar(df, cids, range.inicio, range.fim)
        sel == selectbox(opcoes_diagnostico(v), opcoes_diagnostico(df_filtered), diag)
    IN  /\ cidades' = cids
        /\ periodo' = per
        /\ termo_busca' = termo
        /\ \/ /\ df # <<>>
              /\ pc' = "pronto"
              /\ aviso' = range.aviso
           \/ /\ df = <<>>
              /\ pc' = "pronto"
              /\ aviso' \in BOOLEAN
        /\ data_inicio' = range.inicio
        /\ data_fim' = range.fim
        /\ df_filtered' = v
        /\ kpis' = [total |-> Len(v), unicos |-> nunique_id(v), top_diag |-> top_diag(v)]
        /\ vendas_tempo' = resample_mensal(v)
        /\ diag_selecionado' = sel
        /\ casos_diag' = contar_casos(v, sel)
        /\ busca' = busca_por(v, termo)
        /\ top_diagnosticos' = ranking(v)

\* The run dies at date_input with the NaT bounds of an empty frame
Falha(df) ==
    /\ df = <<>>
    /\ pc' = "falhou"
    /\ UNCHANGED <<cidades, periodo, termo_busca, diag_selecionado, aviso, data_inicio,
                   data_fim, df_filtered, kpis, vendas_tempo, busca, casos_diag,
                   top_diagnosticos>>

\* Variant of CarregarFalha: st.stop() is missing and the run goes on
CarregarFalha_sem_stop ==
    /\ pc = "inicio"
    /\ ~arquivo.existe
    /\ erro' = TRUE
    /\ pc' = "pronto"
    /\ UNCHANGED <<arquivo, cache, cidades, periodo, termo_busca, diag_selecionado, aviso,
                   data_inicio, data_fim, df_filtered, kpis, vendas_tempo, busca,
                   casos_diag, top_diagnosticos>>

\* First run, file missing: FileNotFoundError, st.error, st.stop()
CarregarFalha ==
    /\ pc = "inicio"
    /\ ~arquivo.existe
    /\ erro' = TRUE
    /\ pc' = "parado"
    /\ UNCHANGED <<arquivo, cache, cidades, periodo, termo_busca, diag_selecionado, aviso,
                   data_inicio, data_fim, df_filtered, kpis, vendas_tempo, busca,
                   casos_diag, top_diagnosticos>>

\* First run: carregar_dados fills the cache, every widget shows its default
PrimeiraExecucao ==
    /\ pc = "inicio"
    /\ arquivo.existe
    /\ LET df == carregar_dados(arquivo.linhas)
       IN  /\ cache' = [cheio |-> TRUE, df |-> df]
           /\ \/ Corpo(df, cidades_unicas(df), <<min_date(df), max_date(df)>>, <<>>, NaN)
              \/ Falha(df)
    /\ UNCHANGED <<arquivo, erro>>

\* A widget event re-runs the script; carregar_dados answers from the cache
Reexecutar(cids, per, termo, diag) ==
    /\ pc = "pronto"
    /\ cache.cheio
    /\ \/ Corpo(cache.df, cids, per, termo, diag)
       \/ Falha(cache.df)
    /\ UNCHANGED <<arquivo, cache, erro>>

MudarCidades ==
    \E cids \in SUBSET cidades_unicas(cache.df) :
        Reexecutar(cids, periodo, termo_busca, diag_selecionado)

\* Both ends of the range picked
MudarPeriodo ==
    \E a \in dias_escolha(cache.df), b \in dias_escolha(cache.df) :
        /\ data_le(a, b)
        /\ Reexecutar(cidades, <<a, b>>, termo_busca, diag_selecionado)

\* Only the start of the range picked so far: date_input returns a 1-tuple
PeriodoParcial ==
    \E a \in dias_escolha(cache.df) :
        Reexecutar(cidades, <<a>>, termo_busca, diag_selecionado)

SelecionarDiagnostico ==
    \E k \in 1..Len(opcoes_diagnostico(df_filtered)) :
        Reexecutar(cidades, periodo, termo_busca, opcoes_diagnostico(df_filtered)[k])

BuscarQueixa ==
    \E t \in Termos : Reexecutar(cidades, periodo, t, diag_selecionado)

Next ==
    \/ CarregarFalha
    \/ PrimeiraExecucao
    \/ MudarCidades
    \/ MudarPeriodo
    \/ PeriodoParcial
    \/ SelecionarDiagnostico
    \/ BuscarQueixa

Spec == Init /\ [][Next]_vars

SpecCarga == InitCarga /\ [][Next]_vars

\* The ranking is checked over the views the two filters produce
NextRanking ==
    \/ PrimeiraExecucao
    \/ MudarCidades
    \/ MudarPeriodo

SpecRanking == InitRanking /\ [][NextRanking]_vars

----------------------------------------------------------------------------
(* Properties of the loader *)

\* The raw row of the file a frame row was made from (ids are distinct in
\* the files of the loader specification)
LinhaBruta(id) == CHOOSE r \in {arquivo.linhas[i] : i \in 1..Len(arquivo.linhas)} : r.id = id

\* A raw date field that is a date of the calendar
DataLegivel(t) ==
    /\ t.m \in 1..12
    /\ t.d >= 1
    /\ t.d <= (CASE t.m \in {1, 3, 5, 7, 8, 10, 12} -> 31
                 [] t.m \in {4, 6, 9, 11} -> 30
                 [] OTHER -> IF t.y % 4 = 0 /\ (t.y % 100 # 0 \/ t.y % 400 = 0) THEN 29 ELSE 28)

\* Whole days from the birth timestamp to the visit timestamp
DiasDeVida(r) == (horas(r.dataEntrada) - horas(r.dataNascimento)) \div HorasPorDia

\* A raw row the loader must keep
LinhaAceitavel(r) ==
    /\ DataLegivel(r.dataNascimento)
    /\ DataLegivel(r.dataEntrada)
    /\ DiasDeVida(r) \div 365 >= 0
    /\ DiasDeVida(r) \div 365 < 120

IdsDe(t) == [i \in 1..Len(t) |-> t[i].id]

LinhasDe(t) == {t[i] : i \in 1..Len(t)}

\* C1: every row of the loaded Dataset has an age-at-visit in 0..119 equal to
\* floor(days between birth and visit / 365); the Dataset holds exactly the
\* source rows with two parseable dates and such an age, in file order; and
\* whatever the filters and the search term, the view and the search result
\* hold only Dataset rows and totalVisits counts only them.
Theorem_C1 ==
    cache.cheio =>
        /\ \A i \in 1..Len(cache.df) :
              /\ cache.df[i].idade_no_atendimento \in 0..119
              /\ cache.df[i].idade_no_atendimento = DiasDeVida(cache.df[i]) \div 365
        /\ IdsDe(cache.df) = IdsDe(SelectSeq(arquivo.linhas, LinhaAceitavel))
        /\ LinhasDe(df_filtered) \subseteq LinhasDe(cache.df)
        /\ LinhasDe(busca.df_queixa) \subseteq LinhasDe(df_filtered)
        /\ kpis.total = Len(df_filtered)
        /\ kpis.total <= Len(SelectSeq(arquivo.linhas, LinhaAceitavel))

\* A row of age exactly 120 was dropped, and a search ran on the filtered view
Witness_C1 ==
    /\ pc = "pronto"
    /\ \E i \in 1..Len(arquivo.linhas) :
          /\ DataLegivel(arquivo.linhas[i].dataNascimento)
          /\ DataLegivel(arquivo.linhas[i].dataEntrada)
          /\ DiasDeVida(arquivo.linhas[i]) \div 365 = 120
    /\ Len(cache.df) = Len(arquivo.linhas) - 1
    /\ df_filtered # <<>>
    /\ busca.feita

\* The band table of the specification
Faixa(a) ==
    CASE a >= 0 /\ a < 2 -> "Bebê (0-2)"
      [] a >= 2 /\ a < 12 -> "Criança (3-12)"
      [] a >= 12 /\ a < 19 -> "Adolescente (13-19)"
      [] a >= 19 /\ a < 59 -> "Adulto (20-59)"
      [] a >= 59 /\ a < 120 -> "Idoso (60+)"

\* C2: every age in 0..119 gets exactly the band of the table with edges
\* [0,2,12,19,59,120), left-closed and right-open (2 is 'Criança (3-12)', 19 is
\* 'Adulto (20-59)'), and every row of the Dataset carries the band of its age,
\* never a null band.
Theorem_C2 ==
    /\ \A a \in 0..119 : cut(a) = Faixa(a)
    /\ cache.cheio =>
          \A i \in 1..Len(cache.df) :
              /\ cache.df[i].faixa_etaria = Faixa(cache.df[i].idade_no_atendimento)
              /\ cache.df[i].faixa_etaria # SemFaixa

\* A visit at age 19 is in the view, in the band 'Adulto (20-59)'
Witness_C2 ==
    /\ pc = "pronto"
    /\ \E i \in 1..Len(df_filtered) :
          /\ df_filtered[i].idade_no_atendimento = 19
          /\ df_filtered[i].faixa_etaria = "Adulto (20-59)"

\* Upper case of one character
Maiuscula(c) ==
    IF \E u \in {"A", "D", "E", "F", "I", "N", "O", "Ã"} : lower(u) = c
    THEN CHOOSE u \in {"A", "D", "E", "F", "I", "N", "O", "Ã"} : lower(u) = c
    ELSE c

\* An upper-case writing of the sentinel: optional period, NÃO or NAO, one or
\* more blanks, DEFINIDO, optional period, and nothing else
SentinelaMaiuscula(t) ==
    \E p1 \in {<<>>, <<".">>}, p2 \in {<<>>, <<".">>}, a \in {"Ã", "A"}, k \in 1..Len(t) :
        LET ini == p1 \o <<"N", a, "O">>
        IN  /\ Len(t) = Len(ini) + k + Len(DEFINIDO) + Len(p2)
            /\ SubSeq(t, 1, Len(ini)) = ini
            /\ \A j \in (Len(ini) + 1)..(Len(ini) + k) : t[j] \in Espacos
            /\ SubSeq(t, Len(ini) + k + 1, Len(t)) = DEFINIDO \o p2

\* A writing of the sentinel in any case, surrounded by any blanks
VarianteSentinela(v) ==
    /\ v # NaN
    /\ SentinelaMaiuscula([i \in 1..Len(strip(v)) |-> Maiuscula(strip(v)[i])])

----------------------------------------------------------------------------
(* Properties of the filter and of the aggregations *)

\* day a is not after day b, by year, month and day
DiaLE(a, b) ==
    \/ a.y < b.y
    \/ a.y = b.y /\ a.m < b.m
    \/ a.y = b.y /\ a.m = b.m /\ a.d <= b.d

\* term occurs in text as a literal substring, letter case ignored
SubtextoLiteral(texto, termo) ==
    \E off \in 0..(Len(texto) - Len(termo)) :
        \A i \in 1..Len(termo) : lower(termo[i]) = lower(texto[off + i])

\* C4 as written: a search returns exactly the view rows whose complaint text
\* is present and contains the term as a literal substring ignoring case; a
\* row without complaint text is never returned; the empty term returns no row.
Original_C4 ==
    pc = "pronto" =>
        /\ busca.df_queixa =
              SelectSeq(df_filtered,
                        LAMBDA r : /\ termo_busca # <<>>
                                   /\ r.queixa # NaN
                                   /\ SubtextoLiteral(r.queixa, termo_busca))
        /\ \A i \in 1..Len(busca.df_queixa) : busca.df_queixa[i].queixa # NaN

\* Number of view rows with diagnosis x
Ocorrencias(x) == Cardinality({i \in 1..Len(df_filtered) : df_filtered[i].diagnostico = x})

\* C5: the ranking has at most 10 entries, none for the null diagnosis, no
\* diagnosis twice, counts in non-increasing order, each count the number of
\* view rows with that diagnosis, and no left-out diagnosis has more rows than
\* a listed one; rows with a null diagnosis are left out of the ranking and
\* counted in totalVisits.
Theorem_C5 ==
    pc = "pronto" =>
        /\ Len(top_diagnosticos) <= 10
        /\ \A i \in 1..Len(top_diagnosticos) :
              /\ top_diagnosticos[i].valor # NaN
              /\ top_diagnosticos[i].contagem = Ocorrencias(top_diagnosticos[i].valor)
              /\ top_diagnosticos[i].contagem >= 1
              /\ \A j \in (i + 1)..Len(top_diagnosticos) :
                    /\ top_diagnosticos[j].contagem <= top_diagnosticos[i].contagem
                    /\ top_diagnosticos[j].valor # top_diagnosticos[i].valor
        /\ \A k \in 1..Len(df_filtered) :
              \/ df_filtered[k].diagnostico = NaN
              \/ \E i \in 1..Len(top_diagnosticos) :
                    top_diagnosticos[i].valor = df_filtered[k].diagnostico
              \/ /\ Len(top_diagnosticos) = 10
                 /\ Ocorrencias(df_filtered[k].diagnostico) <= top_diagnosticos[10].contagem
        /\ kpis.total = Len(df_filtered)

\* A view with more than 10 diagnoses, unequal counts and a row without
\* diagnosis: the ranking is cut to 10 and the total counts every row
Witness_C5 ==
    /\ pc = "pronto"
    /\ Cardinality({df_filtered[i].diagnostico : i \in 1..Len(df_filtered)} \ {NaN}) > 10
    /\ \E i \in 1..Len(df_filtered) : df_filtered[i].diagnostico = NaN
    /\ Len(top_diagnosticos) = 10
    /\ top_diagnosticos[1].contagem > top_diagnosticos[10].contagem
    /\ kpis.total > 10

\* C6: a selection that matches no row of a loaded Dataset gives an empty view
\* on which the run completes: totalVisits and uniquePatients are 0, the
\* monthly series and the ranking are empty, the modal diagnosis is "N/A"; a
\* run only dies when the Dataset itself is empty.
Theorem_C6 ==
    /\ (pc = "pronto" /\ df_filtered = <<>>) =>
          /\ kpis.total = 0
          /\ kpis.unicos = 0
          /\ vendas_tempo = <<>>
          /\ top_diagnosticos = <<>>
          /\ kpis.top_diag = <<"N", "/", "A">>
    /\ pc = "falhou" => cache.df = <<>>

\* Cities are selected and the Dataset has rows, but the date range lies in
\* a month without visits
Witness_C6 ==
    /\ pc = "pronto"
    /\ cache.df # <<>>
    /\ cidades = {"RJ", "SP"}
    /\ periodo_valido(periodo)
    /\ df_filtered = <<>>
    /\ kpis.top_diag = <<"N", "/", "A">>

\* Nothing of the script body has run
NadaExecutado ==
    /\ ~cache.cheio
    /\ cidades = {}
    /\ periodo = <<>>
    /\ df_filtered = <<>>
    /\ kpis = NaoCalculado
    /\ vendas_tempo = <<>>
    /\ ~busca.feita
    /\ top_diagnosticos = <<>>
    /\ ~aviso

\* C7: with the source file absent the first run ends stopped with the error
\* message shown, and from then on the session stays stopped: nothing is
\* loaded, filtered, aggregated or rendered, and no step changes anything.
Theorem_C7 ==
    /\ []((~arquivo.existe /\ pc # "inicio") => (pc = "parado" /\ erro /\ NadaExecutado))
    /\ [](pc = "parado" => ~arquivo.existe)
    /\ [][pc = "parado" => UNCHANGED vars]_vars

\* The session stopped on the missing file
Witness_C7 == pc = "parado" /\ erro /\ ~arquivo.existe

\* C8: the cached Dataset is what the loader made of the file, and the view
\* is exactly the Dataset rows, in order, whose city is selected and whose
\* visit day lies within [data_inicio, data_fim], both ends included; the
\* range is the one in the date picker when that is a pair.
Theorem_C8 ==
    pc = "pronto" =>
        /\ cache.df = carregar_dados(arquivo.linhas)
        /\ periodo_valido(periodo) => (data_inicio = periodo[1] /\ data_fim = periodo[2])
        /\ df_filtered =
              SelectSeq(cache.df,
                        LAMBDA r :
                            /\ r.cidade \in cidades
                            /\ DiaLE(data_inicio, [y |-> r.dataEntrada.y, m |-> r.dataEntrada.m,
                                                   d |-> r.dataEntrada.d])
                            /\ DiaLE([y |-> r.dataEntrada.y, m |-> r.dataEntrada.m,
                                      d |-> r.dataEntrada.d], data_fim))

\* After a search and a narrowed range, a visit at noon of the last day of
\* the range is in the view, while other rows are left out
Witness_C8 ==
    /\ pc = "pronto"
    /\ busca.feita
    /\ periodo_valido(periodo)
    /\ data_inicio # data_fim
    /\ cidades = {"SP"}
    /\ Len(df_filtered) < Len(cache.df)
    /\ \E i \in 1..Len(df_filtered) :
          /\ df_filtered[i].dataEntrada.h > 0
          /\ dt_date(df_filtered[i].dataEntrada) = data_fim
    /\ \E i \in 1..Len(df_filtered) : dt_date(df_filtered[i].dataEntrada) = data_inicio

\* C9: when the date picker holds anything but a start and an end, the run
\* completes with the warning shown, the range is [earliest visit day, latest
\* visit day] of the Dataset, the view is every Dataset row of a selected
\* city and the aggregations are those of that view.
Theorem_C9 ==
    (pc = "pronto" /\ ~periodo_valido(periodo)) =>
        /\ aviso
        /\ cache.df # <<>>
        /\ \E i \in 1..Len(cache.df) : dt_date(cache.df[i].dataEntrada) = data_inicio
        /\ \E i \in 1..Len(cache.df) : dt_date(cache.df[i].dataEntrada) = data_fim
        /\ \A i \in 1..Len(cache.df) :
              /\ DiaLE(data_inicio, dt_date(cache.df[i].dataEntrada))
              /\ DiaLE(dt_date(cache.df[i].dataEntrada), data_fim)
        /\ df_filtered = SelectSeq(cache.df, LAMBDA r : r.cidade \in cidades)
        /\ kpis.total = Len(df_filtered)
        /\ kpis.unicos = Cardinality({df_filtered[i].id : i \in 1..Len(df_filtered)})
        /\ (df_filtered # <<>>) => (vendas_tempo # <<>>)

\* Only a start date is picked, later than the first visit; the warning is
\* shown and the view still holds the earlier visits
Witness_C9 ==
    /\ pc = "pronto"
    /\ Len(periodo) = 1
    /\ aviso
    /\ \E i \in 1..Len(df_filtered) :
          ~DiaLE(periodo[1], dt_date(df_filtered[i].dataEntrada))

RECURSIVE SomaAtendimentos(_)
SomaAtendimentos(t) ==
    IF t = <<>> THEN 0 ELSE t[1].Atendimentos + SomaAtendimentos(Tail(t))

\* The calendar months from the month of the earliest to the month of the
\* latest visit of the view
MesesDaVisao ==
    {ym \in {<<df_filtered[i].dataEntrada.y + dy, mm>> :
                i \in 1..Len(df_filtered), dy \in 0..1, mm \in 1..12} :
        /\ \E i \in 1..Len(df_filtered) :
              \/ df_filtered[i].dataEntrada.y < ym[1]
              \/ df_filtered[i].dataEntrada.y = ym[1] /\ df_filtered[i].dataEntrada.m <= ym[2]
        /\ \E i \in 1..Len(df_filtered) :
              \/ df_filtered[i].dataEntrada.y > ym[1]
              \/ df_filtered[i].dataEntrada.y = ym[1] /\ df_filtered[i].dataEntrada.m >= ym[2]}

\* C10: for a non-empty view the monthly series has exactly one point for
\* each calendar month from the earliest to the latest visit month, in
\* chronological order, each with the number of view rows of that month (0
\* for a month without visits), so that the counts add up to totalVisits.
Theorem_C10 ==
    (pc = "pronto" /\ df_filtered # <<>>) =>
        /\ Len(vendas_tempo) = Cardinality(MesesDaVisao)
        /\ \A n \in 1..Len(vendas_tempo) :
              /\ <<vendas_tempo[n].dataEntrada.y, vendas_tempo[n].dataEntrada.m>> \in MesesDaVisao
              /\ vendas_tempo[n].Atendimentos =
                    Cardinality({i \in 1..Len(df_filtered) :
                                    /\ df_filtered[i].dataEntrada.y = vendas_tempo[n].dataEntrada.y
                                    /\ df_filtered[i].dataEntrada.m = vendas_tempo[n].dataEntrada.m})
              /\ \A k \in (n + 1)..Len(vendas_tempo) :
                    ~DiaLE(vendas_tempo[k].dataEntrada, vendas_tempo[n].dataEntrada)
        /\ SomaAtendimentos(vendas_tempo) = kpis.total

\* A view from December 2023 to February 2024 or beyond: the series has a
\* point with count 0 for January 2024
Witness_C10 ==
    /\ pc = "pronto"
    /\ \E n \in 1..Len(vendas_tempo) :
          /\ vendas_tempo[n].Atendimentos = 0
          /\ vendas_tempo[n].dataEntrada = [y |-> 2024, m |-> 1, d |-> 31]
    /\ Len(vendas_tempo) >= 4

====
